---- MODULE Spec2Model ----
(***************************************************************************)
(* Gateway layer of the Indo-Legal RAG chat application.                   *)
(*                                                                         *)
(* Two Next.js route handlers sit between the browser and the FastAPI      *)
(* backend:                                                                *)
(*   - the extended entry point   (src/unnamed/part_000, POST): request    *)
(*     normalisation, a retry loop of MAX_RETRIES attempts with a fixed    *)
(*     RETRY_DELAY, whole-body JSON reply;                                 *)
(*   - the interactive entry point (frontend/src/app/api/chat/route.ts,    *)
(*     POST): request normalisation, one backend call, citation            *)
(*     formatting and a character-by-character stream.                     *)
(*                                                                         *)
(* The chat UI (frontend/src/components/chat/chat-interface.tsx) that      *)
(* calls the gateway is modelled beside them, with its own variables and   *)
(* its own specification SpecUi.                                           *)
(*                                                                         *)
(* One request is followed from its arrival to its reply.  Strings that    *)
(* are taken apart by the code (the streamed text, file names) are         *)
(* sequences of UTF-16 code units; error texts are sequences of words and  *)
(* String.prototype.includes is the contiguous-subsequence test.           *)
(***************************************************************************)
EXTENDS Integers, Sequences, FiniteSets, TLC

(***************************************************************************)
(* Bounds of the model.                                                    *)
(***************************************************************************)
MaxMsgs == 2
MaxSources == 2
MaxUiMessages == 4

(***************************************************************************)
(* Program constants.                                                      *)
(***************************************************************************)
MAX_RETRIES == 5
RETRY_DELAY == 8000

(***************************************************************************)
(* JavaScript values of the inbound body.                                  *)
(***************************************************************************)
Undefined == [tag |-> "undefined", val |-> ""]
Str(s) == [tag |-> "string", val |-> s]

\* JS truthiness of undefined and of strings: !v is true for undefined and "".
Truthy(v) == v.tag = "string" /\ v.val # ""

Last(s) == s[Len(s)]

\* String.prototype.includes on word sequences: needle occurs contiguously.
Includes(hay, needle) ==
  \E i \in 0..(Len(hay) - Len(needle)) :
    \A j \in 1..Len(needle) : hay[i + j] = needle[j]

\* String(err) of an Error object: "<name>: <message>".
ErrString(err) == <<err.name, ":">> \o err.message

\* (err as {cause}).cause ? String(cause) : ""
CauseString(err) == err.cause

ECONNREFUSED == <<"ECONNREFUSED">>
FetchFailed == <<"fetch", "failed">>

\* Variant: the wrapped cause is not inspected.
IsConnectionErrorNoCause(err) ==
  \/ Includes(ErrString(err), ECONNREFUSED)
  \/ Includes(ErrString(err), FetchFailed)

\* part_000 lines 90-95
IsConnectionError(err) ==
  \/ Includes(ErrString(err), ECONNREFUSED)
  \/ Includes(ErrString(err), FetchFailed)
  \/ Includes(CauseString(err), ECONNREFUSED)

(***************************************************************************)
(* Inbound request bodies.  A body is what req.json() yields, or it is     *)
(* unparsable and req.json() throws.  messages is absent or an array of    *)
(* {role, content}.  A body may also carry the request parameters, as the  *)
(* chat UI's does (chat-interface.tsx lines 81-87); temperature is counted *)
(* in tenths.                                                              *)
(***************************************************************************)
NoOptions ==
  [present |-> FALSE, top_k |-> 0, max_tokens |-> 0, temperature |-> 0,
   include_context |-> FALSE]
UiOptions ==
  [present |-> TRUE, top_k |-> 5, max_tokens |-> 400, temperature |-> 5,
   include_context |-> FALSE]
OtherOptions ==
  [present |-> TRUE, top_k |-> 50, max_tokens |-> 4096, temperature |-> 20,
   include_context |-> TRUE]
Options == {NoOptions, UiOptions, OtherOptions}

Contents == {Str(""), Str("a"), Str("b")}
Message == [role : {"user", "assistant"}, content : Contents]
Questions == {Undefined, Str(""), Str("a")}

SeqsUpTo(S, n) == UNION {[1..k -> S] : k \in 0..n}

MessagesAbsent == [present |-> FALSE, list |-> <<>>]
MessagesValues ==
  {MessagesAbsent} \cup {[present |-> TRUE, list |-> l] : l \in SeqsUpTo(Message, MaxMsgs)}

NoBody ==
  [parsable |-> FALSE, pertanyaan |-> Undefined, messages |-> MessagesAbsent,
   options |-> NoOptions]

Bodies ==
  [parsable : {TRUE}, pertanyaan : Questions, messages : MessagesValues,
   options : Options]
    \cup {NoBody}

(***************************************************************************)
(* Backend data: ChatResponse and Source (src/unnamed/part_002).  Strings  *)
(* that the gateway takes apart are sequences of UTF-16 code units; a      *)
(* score is counted in 1/10000, so that score * 100 is the same integer    *)
(* read in hundredths.                                                     *)
(***************************************************************************)
LF == "\n"
QUOTE == "\""
BACKSLASH == "\\"
EACUTE == "U+00E9"
HIGH_SURROGATE == "U+D83D"
LOW_SURROGATE == "U+DE00"

Sources ==
  { [source |-> <<"d", "/", "a">>, page |-> 12, doc_type |-> "putusan",
     score |-> 8567, retrieval_source |-> "hybrid"],
    [source |-> <<"u">>, page |-> 1, doc_type |-> "uu",
     score |-> 312, retrieval_source |-> "bm25"],
    [source |-> <<"d", "/">>, page |-> 3, doc_type |-> "putusan",
     score |-> 10000, retrieval_source |-> "dense"] }

Answers ==
  { <<"H", "i">>,
    <<QUOTE, BACKSLASH, LF, EACUTE, HIGH_SURROGATE, LOW_SURROGATE>> }

Data == [jawaban : Answers, sumber : SeqsUpTo(Sources, MaxSources)]
NoData == [jawaban |-> <<>>, sumber |-> <<>>]

(***************************************************************************)
(* Outcomes of one backend fetch: it throws an Error, or it yields a       *)
(* Response with a status, a body text (read by text() when not ok) and a  *)
(* JSON value (read by json() when ok; json() throws when unparsable).     *)
(***************************************************************************)
NoError == [name |-> "", message |-> <<>>, cause |-> <<>>]

ErrRefused ==
  [name |-> "Error", message |-> <<"connect", "ECONNREFUSED", "127.0.0.1:8000">>,
   cause |-> <<>>]
ErrFetchFailedRefused ==
  [name |-> "TypeError", message |-> <<"fetch", "failed">>,
   cause |-> <<"Error", ":", "connect", "ECONNREFUSED", "127.0.0.1:8000">>]
ErrFetchFailedOther ==
  [name |-> "TypeError", message |-> <<"fetch", "failed">>,
   cause |-> <<"SocketError", ":", "other", "side", "closed">>]
ErrCauseOnly ==
  [name |-> "Error", message |-> <<"request", "to", "backend", "failed">>,
   cause |-> <<"Error", ":", "connect", "ECONNREFUSED", "127.0.0.1:8000">>]
ErrOther ==
  [name |-> "TypeError", message |-> <<"Invalid", "URL">>, cause |-> <<>>]
ErrAbort ==
  [name |-> "AbortError", message |-> <<"This", "operation", "was", "aborted">>,
   cause |-> <<>>]
ErrJson ==
  [name |-> "SyntaxError", message |-> <<"Unexpected", "token">>, cause |-> <<>>]

FetchErrors ==
  {ErrRefused, ErrFetchFailedRefused, ErrFetchFailedOther, ErrCauseOnly, ErrOther, ErrAbort}

Throws(e) ==
  [kind |-> "throw", err |-> e, status |-> 0, text |-> <<>>, parsable |-> FALSE,
   data |-> NoData]
Responds(st, txt, ok, d) ==
  [kind |-> "response", err |-> NoError, status |-> st, text |-> txt, parsable |-> ok,
   data |-> d]

Outcomes ==
  {Throws(e) : e \in FetchErrors}
    \cup {Responds(200, <<>>, TRUE, d) : d \in Data}
    \cup {Responds(201, <<>>, TRUE, [jawaban |-> <<"H", "i">>, sumber |-> <<>>])}
    \cup {Responds(200, <<"<html>">>, FALSE, NoData)}
    \cup {Responds(404, <<>>, FALSE, NoData),
          Responds(503, <<"Service", "Unavailable">>, FALSE, NoData)}

\* Response.ok
Ok(o) == o.status >= 200 /\ o.status <= 299

(***************************************************************************)
(* Request Normalizer.                                                     *)
(***************************************************************************)
NoMessage == [role |-> "", content |-> Undefined]
UndefinedMessage == [tag |-> "undefined", val |-> NoMessage]

\* Variant: shift() instead of pop(): the first element.
Shift(arr) ==
  IF arr = <<>> THEN UndefinedMessage ELSE [tag |-> "object", val |-> Head(arr)]

\* Array.prototype.pop on the filtered array: its last element, or undefined.
Pop(arr) ==
  IF arr = <<>> THEN UndefinedMessage ELSE [tag |-> "object", val |-> Last(arr)]

\* Variant: the role filter lets every entry through.
IsAnyRole(m) == m.role \in {"user", "assistant"}

IsUser(m) == m.role = "user"

\* messages?.filter(m => m.role === "user")?.pop()
LastUserMessage(messages) ==
  IF messages.present THEN Pop(SelectSeq(messages.list, IsUser)) ELSE UndefinedMessage

\* Variant: messages is consulted before pertanyaan.
ExtUserQuestionMessagesFirst(b) ==
  IF b.messages.present /\ LastUserMessage(b.messages).tag # "undefined"
    THEN LastUserMessage(b.messages).val.content
    ELSE b.pertanyaan

\* part_000: userQuestion after lines 47-53.
ExtUserQuestion(b) ==
  IF ~Truthy(b.pertanyaan) /\ b.messages.present
    THEN LET lastUserMessage == LastUserMessage(b.messages)
         IN  IF lastUserMessage.tag = "undefined" THEN Undefined
             ELSE lastUserMessage.val.content
    ELSE b.pertanyaan

\* Variant: the chat UI's max_tokens (400) in place of 2048.
ExtChatRequestUiTokens(q) ==
  [pertanyaan |-> q, top_k |-> 5, max_tokens |-> 400, temperature |-> 5,
   include_context |-> FALSE]

\* temperature is counted in tenths (5 is 0.5, 7 is 0.7).
ExtChatRequest(q) ==
  [pertanyaan |-> q, top_k |-> 5, max_tokens |-> 2048, temperature |-> 5,
   include_context |-> FALSE]
IntChatRequest(q) ==
  [pertanyaan |-> q, top_k |-> 5, max_tokens |-> 800, temperature |-> 7,
   include_context |-> FALSE]
NoRequest ==
  [pertanyaan |-> Undefined, top_k |-> 0, max_tokens |-> 0, temperature |-> 0,
   include_context |-> FALSE]

(***************************************************************************)
(* Citation Formatter (route.ts lines 58-68).                              *)
(***************************************************************************)
DigitChars == <<"0", "1", "2", "3", "4", "5", "6", "7", "8", "9">>

RECURSIVE Digits(_)
\* String(n) of a non-negative integer.
Digits(n) ==
  IF n < 10 THEN <<DigitChars[n + 1]>>
  ELSE Digits(n \div 10) \o <<DigitChars[(n % 10) + 1]>>

\* x.toFixed(1) for x >= 0 given in hundredths: the nearest tenth, the larger
\* one on a tie.
ToFixed1(hundredths) ==
  LET tenths == (hundredths + 5) \div 10
  IN  Digits(tenths \div 10) \o <<".">> \o Digits(tenths % 10)

\* source.source.split("/").pop() || source.source
FileName(src) ==
  LET slashes == {i \in 1..Len(src) : src[i] = "/"}
      lastSeg == IF slashes = {} THEN src
                 ELSE SubSeq(src, (CHOOSE i \in slashes : \A j \in slashes : j <= i) + 1,
                             Len(src))
  IN  IF lastSeg = <<>> THEN src ELSE lastSeg

SourcesHeader ==
  <<LF, LF, "-", "-", "-", LF, "*", "*", "S", "u", "m", "b", "e", "r", " ",
    "R", "e", "f", "e", "r", "e", "n", "s", "i", ":", "*", "*", LF>>

\* Variant: the line is numbered idx, not idx + 1.
SourceLineZeroBased(idx1, source) ==
  Digits(idx1 - 1) \o <<".", " ">> \o FileName(source.source)
    \o <<" ", "(", "H", "a", "l", ".", " ">> \o Digits(source.page)
    \o <<",", " ", "S", "k", "o", "r", ":", " ">> \o ToFixed1(source.score)
    \o <<"%", ")", "\n">>

\* `${idx + 1}. ${fileName} (Hal. ${source.page}, Skor: ${(source.score * 100).toFixed(1)}%)\n`
\* with idx1 = idx + 1.
SourceLine(idx1, source) ==
  Digits(idx1) \o <<".", " ">> \o FileName(source.source)
    \o <<" ", "(", "H", "a", "l", ".", " ">> \o Digits(source.page)
    \o <<",", " ", "S", "k", "o", "r", ":", " ">> \o ToFixed1(source.score)
    \o <<"%", ")", LF>>

RECURSIVE SourceLines(_, _)
\* data.sumber.forEach((source, idx) => responseText += line), lines 1..n.
SourceLines(sumber, n) ==
  IF n = 0 THEN <<>>
  ELSE SourceLines(sumber, n - 1) \o SourceLine(n, sumber[n])

ResponseText(data) ==
  IF Len(data.sumber) > 0
    THEN data.jawaban \o SourcesHeader \o SourceLines(data.sumber, Len(data.sumber))
    ELSE data.jawaban

\* Variant: the block is appended to data.jawaban itself.
FormatResponseInPlace(d) ==
  [responseText |-> ResponseText(d), data |-> [d EXCEPT !.jawaban = ResponseText(d)]]

\* Lines 59-68 as a whole: the text built and what data holds afterwards.  The
\* code assigns to the local responseText only; split("/").pop() pops the array
\* made by split.
FormatResponse(d) ==
  [responseText |-> ResponseText(d), data |-> d]

(***************************************************************************)
(* Stream Adapter (route.ts lines 71-96).                                  *)
(***************************************************************************)
\* Variant: the chunk is quoted without escaping.
JSONStringifyRaw(chunk) == <<QUOTE, chunk, QUOTE>>

\* JSON.stringify of a one-code-unit string.
JSONStringify(chunk) ==
  IF chunk = QUOTE THEN <<QUOTE, BACKSLASH, QUOTE, QUOTE>>
  ELSE IF chunk = BACKSLASH THEN <<QUOTE, BACKSLASH, BACKSLASH, QUOTE>>
  ELSE IF chunk = LF THEN <<QUOTE, BACKSLASH, "n", QUOTE>>
  ELSE IF chunk = HIGH_SURROGATE THEN <<QUOTE, BACKSLASH, "u", "d", "8", "3", "d", QUOTE>>
  ELSE IF chunk = LOW_SURROGATE THEN <<QUOTE, BACKSLASH, "u", "d", "e", "0", "0", QUOTE>>
  ELSE <<QUOTE, chunk, QUOTE>>

\* UTF-8 bytes of one code unit (a lone surrogate encodes as U+FFFD).
EncodeUnit(c) ==
  IF c = EACUTE THEN <<"0xC3", "0xA9">>
  ELSE IF c \in {HIGH_SURROGATE, LOW_SURROGATE} THEN <<"0xEF", "0xBF", "0xBD">>
  ELSE <<c>>

RECURSIVE Encode(_)
\* TextEncoder.encode
Encode(str) ==
  IF str = <<>> THEN <<>> ELSE EncodeUnit(Head(str)) \o Encode(Tail(str))

\* `0:${JSON.stringify(chunk)}\n`
SseMessage(chunk) == <<"0", ":">> \o JSONStringify(chunk) \o <<LF>>

\* `d:{"finishReason":"stop"}\n`
FinishMessage ==
  <<"d", ":", "{", QUOTE, "f", "i", "n", "i", "s", "h", "R", "e", "a", "s", "o", "n",
    QUOTE, ":", QUOTE, "s", "t", "o", "p", QUOTE, "}", LF>>

\* timers counts the armed setTimeout timers, calls the calls of
\* sendNextChunk and closeCalls the calls of controller.close; timerPending
\* tells whether a timer is armed.
NoStream ==
  [state |-> "none", lines |-> <<>>, currentIndex |-> 0, enqueued |-> <<>>,
   timerPending |-> FALSE, timers |-> 0, calls |-> 0, closeCalls |-> 0]

\* new ReadableStream({start}) up to the call of sendNextChunk: lines and
\* currentIndex are set (currentIndex counts the lines already sent).
NewStream(responseText) ==
  [state |-> "readable", lines |-> responseText, currentIndex |-> 0,
   enqueued |-> <<>>, timerPending |-> FALSE, timers |-> 0, calls |-> 0,
   closeCalls |-> 0]

Armed(st) == [st EXCEPT !.timerPending = st.timers > 0]

\* Variant: enqueue succeeds on a stream that is no longer readable.
SendNextChunkIgnoringCancel(st) ==
  Armed(IF st.currentIndex < Len(st.lines)
          THEN [st EXCEPT
                  !.calls = @ + 1,
                  !.enqueued = Append(@, Encode(SseMessage(st.lines[st.currentIndex + 1]))),
                  !.currentIndex = @ + 1,
                  !.timers = @ + 1]
          ELSE [st EXCEPT
                  !.calls = @ + 1,
                  !.enqueued = Append(@, Encode(FinishMessage)),
                  !.state = "closed",
                  !.closeCalls = @ + 1])

\* Variant: the finish branch neither closes the stream nor stops the timer.
SendNextChunkNoClose(st) ==
  Armed(IF st.state # "readable"
          THEN [st EXCEPT !.calls = @ + 1]
        ELSE IF st.currentIndex < Len(st.lines)
          THEN [st EXCEPT
                  !.calls = @ + 1,
                  !.enqueued = Append(@, Encode(SseMessage(st.lines[st.currentIndex + 1]))),
                  !.currentIndex = @ + 1,
                  !.timers = @ + 1]
          ELSE [st EXCEPT
                  !.calls = @ + 1,
                  !.enqueued = Append(@, Encode(FinishMessage)),
                  !.timers = @ + 1])

\* Variant: the text branch arms the timer twice.
SendNextChunkTwoTimers(st) ==
  Armed(IF st.state # "readable"
          THEN [st EXCEPT !.calls = @ + 1]
        ELSE IF st.currentIndex < Len(st.lines)
          THEN [st EXCEPT
                  !.calls = @ + 1,
                  !.enqueued = Append(@, Encode(SseMessage(st.lines[st.currentIndex + 1]))),
                  !.currentIndex = @ + 1,
                  !.timers = @ + 2]
          ELSE [st EXCEPT
                  !.calls = @ + 1,
                  !.enqueued = Append(@, Encode(FinishMessage)),
                  !.state = "closed",
                  !.closeCalls = @ + 1])

\* One call of sendNextChunk (lines 77-91), the timer that made the call, if
\* any, being already spent.  controller.enqueue throws once the stream is no
\* longer readable, which ends the callback before it re-arms the timer.
SendNextChunk(st) ==
  Armed(IF st.state # "readable"
          THEN [st EXCEPT !.calls = @ + 1]
        ELSE IF st.currentIndex < Len(st.lines)
          THEN [st EXCEPT
                  !.calls = @ + 1,
                  !.enqueued = Append(@, Encode(SseMessage(st.lines[st.currentIndex + 1]))),
                  !.currentIndex = @ + 1,
                  !.timers = @ + 1]
          ELSE [st EXCEPT
                  !.calls = @ + 1,
                  !.enqueued = Append(@, Encode(FinishMessage)),
                  !.state = "closed",
                  !.closeCalls = @ + 1])

(***************************************************************************)
(* HTTP responses of the handlers.                                         *)
(***************************************************************************)
NoResponse ==
  [kind |-> "none", status |-> 0, fields |-> {}, error |-> "", details |-> <<>>,
   data |-> NoData]

\* new Response(JSON.stringify({error}), {status})
ErrorOnly(st, err) ==
  [kind |-> "json", status |-> st, fields |-> {"error"}, error |-> err,
   details |-> <<>>, data |-> NoData]

\* new Response(JSON.stringify({error, details}), {status})
ErrorDetails(st, err, det) ==
  [kind |-> "json", status |-> st, fields |-> {"error", "details"}, error |-> err,
   details |-> det, data |-> NoData]

\* Variant: the citation block is appended to jawaban before the reply.
JsonDataWithCitations(d) ==
  [kind |-> "json", status |-> 200, fields |-> DOMAIN d, error |-> "",
   details |-> <<>>, data |-> [d EXCEPT !.jawaban = ResponseText(d)]]

\* new Response(JSON.stringify(data), {status: 200})
JsonData(d) ==
  [kind |-> "json", status |-> 200, fields |-> DOMAIN d, error |-> "",
   details |-> <<>>, data |-> d]

\* new Response(stream, {headers}) : status defaults to 200
StreamResponse ==
  [kind |-> "stream", status |-> 200, fields |-> {}, error |-> "", details |-> <<>>,
   data |-> NoData]

TimeoutDetails ==
  <<"LLM membutuhkan waktu terlalu lama. Coba pertanyaan yang lebih singkat.">>
LoadingDetails ==
  <<"Server sedang memuat model AI. Tunggu ~30 detik lalu coba lagi.">>

\* Variant: the catch block has no branch for AbortError.
ExtCatchNoAbort(error) ==
  IF Includes(ErrString(error), ECONNREFUSED) \/ Includes(ErrString(error), FetchFailed)
    THEN ErrorDetails(503, "Backend sedang loading", LoadingDetails)
  ELSE ErrorDetails(500, "Internal server error", ErrString(error))

\* Variant: the 503 branch tests only for "fetch failed".
ExtCatchFetchFailedOnly(error) ==
  IF error.name = "AbortError"
    THEN ErrorDetails(504, "Request timeout", TimeoutDetails)
  ELSE IF Includes(ErrString(error), FetchFailed)
    THEN ErrorDetails(503, "Backend sedang loading", LoadingDetails)
  ELSE ErrorDetails(500, "Internal server error", ErrString(error))

\* part_000 lines 129-153: the catch block of the extended handler.
ExtCatch(error) ==
  IF error.name = "AbortError"
    THEN ErrorDetails(504, "Request timeout", TimeoutDetails)
  ELSE IF Includes(ErrString(error), ECONNREFUSED) \/ Includes(ErrString(error), FetchFailed)
    THEN ErrorDetails(503, "Backend sedang loading", LoadingDetails)
  ELSE ErrorDetails(500, "Internal server error", ErrString(error))

\* Variant: the status option is left out, so the reply has status 200.
IntCatchNoStatus(error) ==
  ErrorDetails(200, "Internal server error", ErrString(error))

\* route.ts lines 105-111: the catch block of the interactive handler.
IntCatch(error) ==
  ErrorDetails(500, "Internal server error", ErrString(error))

\* Variant: the backend's status is not forwarded.
BackendRequestFailed500(o) ==
  ErrorDetails(500, "Backend request failed", o.text)

\* Lines 110-117 (part_000) and 43-50 (route.ts): a response that is not ok.
BackendRequestFailed(o) ==
  ErrorDetails(o.status, "Backend request failed", o.text)

(***************************************************************************)
(* State of one request.                                                   *)
(***************************************************************************)
VARIABLES
  pc,           \* "idle", "fetching", "waiting", "streaming", "done"
  entry,        \* "extended" or "interactive" ("" before the request)
  body,         \* the inbound body
  chatRequest,  \* the canonical request built by the handler
  sent,         \* the bodies of the fetch calls issued so far, in order
  hist,         \* the outcomes of the fetch calls settled so far, in order
  delays,       \* the delays of the retry timers set so far, in order
  attempt,      \* loop variable of the retry loop
  lastError,    \* part_000 line 74
  data,         \* the parsed backend response (const data of both handlers)
  response,     \* the HTTP response returned to the caller
  stream        \* the ReadableStream of the interactive handler

(***************************************************************************)
(* State of the chat UI (components/chat/chat-interface.tsx): the useState *)
(* cells of ChatInterface and the gateway requests it is awaiting.         *)
(***************************************************************************)
VARIABLES
  messages,        \* useState<Message[]>
  input,           \* useState("")
  isLoading,       \* useState(false)
  currentSources,  \* useState<Source[]>
  pending,         \* the userMessage.content of every fetch not yet settled
  uiEvent          \* the handler that ran last

\* uiEvent: the handler and, for a settled fetch, its outcome.
NoEvent == [handler |-> "", settled |-> Responds(0, <<>>, FALSE, NoData)]
Event(name) == [NoEvent EXCEPT !.handler = name]

handlerVars ==
  <<pc, entry, body, chatRequest, sent, hist, delays, attempt, lastError, data,
    response, stream>>

uiVars == <<messages, input, isLoading, currentSources, pending, uiEvent>>

vars ==
  <<pc, entry, body, chatRequest, sent, hist, delays, attempt, lastError, data,
    response, stream, messages, input, isLoading, currentSources, pending, uiEvent>>

Init ==
  /\ pc = "idle"
  /\ entry = ""
  /\ body = NoBody
  /\ chatRequest = NoRequest
  /\ sent = <<>>
  /\ hist = <<>>
  /\ delays = <<>>
  /\ attempt = 0
  /\ lastError = NoError
  /\ data = NoData
  /\ response = NoResponse
  /\ stream = NoStream
  /\ messages = <<>>
  /\ input = <<>>
  /\ isLoading = FALSE
  /\ currentSources = <<>>
  /\ pending = <<>>
  /\ uiEvent = NoEvent

\* The handler returns resp.
Return(resp) ==
  /\ pc' = "done"
  /\ response' = resp

(***************************************************************************)
(* Extended entry point (src/unnamed/part_000).                            *)
(***************************************************************************)
\* POST up to the first await fetch: req.json(), normalisation, validation,
\* chatRequest, first iteration of the loop.
ExtPOST(b) ==
  /\ pc = "idle"
  /\ UNCHANGED uiVars
  /\ entry' = "extended"
  /\ body' = b
  /\ UNCHANGED <<hist, delays, lastError, data, stream>>
  /\ IF ~b.parsable
       THEN /\ Return(ExtCatch(ErrJson))
            /\ UNCHANGED <<chatRequest, sent, attempt>>
     ELSE IF ~Truthy(ExtUserQuestion(b))
       THEN /\ Return(ErrorOnly(400, "No user message found"))
            /\ UNCHANGED <<chatRequest, sent, attempt>>
       ELSE /\ chatRequest' = ExtChatRequest(ExtUserQuestion(b))
            /\ attempt' = 1
            /\ sent' = Append(sent, chatRequest')
            /\ pc' = "fetching"
            /\ UNCHANGED response

\* Line 99: the delay of the timer set after the failure of attempt att.
RetryDelay(att) == RETRY_DELAY

\* Variant: the retry test is attempt < MAX_RETRIES - 1.
RetryAfterFewer(err, att) == IsConnectionError(err) /\ att < MAX_RETRIES - 1

\* Variant: the retry test is attempt <= MAX_RETRIES.
RetryAfterInclusive(err, att) == IsConnectionError(err) /\ att <= MAX_RETRIES

\* Lines 97-102: what the catch clause of the loop does with err.
RetryAfter(err, att) == IsConnectionError(err) /\ att < MAX_RETRIES

\* The pending fetch settles with outcome o: lines 78-103 and, after a break,
\* lines 106-128.
ExtFetchSettles(o) ==
  /\ pc = "fetching"
  /\ UNCHANGED uiVars
  /\ entry = "extended"
  /\ hist' = Append(hist, o)
  /\ UNCHANGED <<entry, body, chatRequest, sent, attempt, stream>>
  /\ IF o.kind = "throw"
       THEN /\ lastError' = o.err
            /\ UNCHANGED data
            /\ IF RetryAfter(o.err, attempt)
                 THEN /\ delays' = Append(delays, RetryDelay(attempt))
                      /\ pc' = "waiting"
                      /\ UNCHANGED response
                 ELSE /\ Return(ExtCatch(o.err))
                      /\ UNCHANGED delays
       ELSE /\ UNCHANGED <<lastError, delays>>
            /\ IF ~Ok(o) THEN Return(BackendRequestFailed(o)) /\ UNCHANGED data
               ELSE IF ~o.parsable THEN Return(ExtCatch(ErrJson)) /\ UNCHANGED data
               ELSE data' = o.data /\ Return(JsonData(data'))

\* Variant: the loop variable is not incremented.
ExtRetryTimerForever ==
  /\ pc = "waiting"
  /\ UNCHANGED uiVars
  /\ entry = "extended"
  /\ sent' = Append(sent, chatRequest)
  /\ pc' = "fetching"
  /\ UNCHANGED <<entry, body, chatRequest, hist, delays, lastError, data, stream, attempt,
                 response>>

\* The retry timer fires: continue, attempt++, loop test, next fetch; when the
\* loop ends without a response, line 107 throws lastError.
ExtRetryTimer ==
  /\ pc = "waiting"
  /\ UNCHANGED uiVars
  /\ entry = "extended"
  /\ attempt' = attempt + 1
  /\ UNCHANGED <<entry, body, chatRequest, hist, delays, lastError, data, stream>>
  /\ IF attempt' <= MAX_RETRIES
       THEN /\ sent' = Append(sent, chatRequest)
            /\ pc' = "fetching"
            /\ UNCHANGED response
       ELSE /\ Return(ExtCatch(lastError))
            /\ UNCHANGED sent

(***************************************************************************)
(* Interactive entry point (frontend/src/app/api/chat/route.ts).           *)
(***************************************************************************)
\* POST up to await fetch.
IntPOST(b) ==
  /\ pc = "idle"
  /\ UNCHANGED uiVars
  /\ entry' = "interactive"
  /\ body' = b
  /\ UNCHANGED <<hist, delays, lastError, data, stream, attempt>>
  /\ IF ~b.parsable
       THEN /\ Return(IntCatch(ErrJson))
            /\ UNCHANGED <<chatRequest, sent>>
     ELSE IF LastUserMessage(b.messages).tag = "undefined"
       THEN /\ Return(ErrorOnly(400, "No user message found"))
            /\ UNCHANGED <<chatRequest, sent>>
       ELSE /\ chatRequest' = IntChatRequest(LastUserMessage(b.messages).val.content)
            /\ sent' = Append(sent, chatRequest')
            /\ pc' = "fetching"
            /\ UNCHANGED response

\* Variant: the interactive handler retries a connection error like the
\* extended one does.
IntFetchSettlesRetrying(o) ==
  /\ pc = "fetching"
  /\ UNCHANGED uiVars
  /\ entry = "interactive"
  /\ hist' = Append(hist, o)
  /\ UNCHANGED <<entry, body, chatRequest, delays, attempt, lastError>>
  /\ IF o.kind = "throw" /\ IsConnectionError(o.err) /\ Len(sent) < MAX_RETRIES
       THEN /\ sent' = Append(sent, chatRequest)
            /\ UNCHANGED <<pc, response, stream, data>>
     ELSE IF o.kind = "throw"
       THEN Return(IntCatch(o.err)) /\ UNCHANGED <<stream, sent, data>>
     ELSE IF ~Ok(o)
       THEN Return(BackendRequestFailed(o)) /\ UNCHANGED <<stream, sent, data>>
     ELSE IF ~o.parsable
       THEN Return(IntCatch(ErrJson)) /\ UNCHANGED <<stream, sent, data>>
       ELSE /\ data' = FormatResponse(o.data).data
            /\ stream' = SendNextChunk(NewStream(FormatResponse(o.data).responseText))
            /\ response' = StreamResponse
            /\ pc' = IF stream'.timerPending THEN "streaming" ELSE "done"
            /\ UNCHANGED sent

\* Variant: the stream is started on the answer before the citation block is
\* appended.
IntFetchSettlesStreamFirst(o) ==
  /\ pc = "fetching"
  /\ UNCHANGED uiVars
  /\ entry = "interactive"
  /\ hist' = Append(hist, o)
  /\ UNCHANGED <<entry, body, chatRequest, sent, delays, attempt, lastError>>
  /\ IF o.kind = "throw"
       THEN Return(IntCatch(o.err)) /\ UNCHANGED <<stream, data>>
     ELSE IF ~Ok(o)
       THEN Return(BackendRequestFailed(o)) /\ UNCHANGED <<stream, data>>
     ELSE IF ~o.parsable
       THEN Return(IntCatch(ErrJson)) /\ UNCHANGED <<stream, data>>
       ELSE /\ data' = FormatResponse(o.data).data
            /\ stream' = SendNextChunk(NewStream(o.data.jawaban))
            /\ response' = StreamResponse
            /\ pc' = IF stream'.timerPending THEN "streaming" ELSE "done"

\* The fetch settles with outcome o: lines 35-104.  The stream's start() runs
\* inside the ReadableStream constructor and makes the first call of
\* sendNextChunk before the Response is returned.
IntFetchSettles(o) ==
  /\ pc = "fetching"
  /\ UNCHANGED uiVars
  /\ entry = "interactive"
  /\ hist' = Append(hist, o)
  /\ UNCHANGED <<entry, body, chatRequest, sent, delays, attempt, lastError>>
  /\ IF o.kind = "throw"
       THEN Return(IntCatch(o.err)) /\ UNCHANGED <<stream, data>>
     ELSE IF ~Ok(o)
       THEN Return(BackendRequestFailed(o)) /\ UNCHANGED <<stream, data>>
     ELSE IF ~o.parsable
       THEN Return(IntCatch(ErrJson)) /\ UNCHANGED <<stream, data>>
       ELSE /\ data' = FormatResponse(o.data).data
            /\ stream' = SendNextChunk(NewStream(FormatResponse(o.data).responseText))
            /\ response' = StreamResponse
            /\ pc' = IF stream'.timerPending THEN "streaming" ELSE "done"

\* setTimeout(sendNextChunk, 10) fires.
SendNextChunkTimer ==
  /\ pc = "streaming"
  /\ UNCHANGED uiVars
  /\ stream.timerPending
  /\ stream' = SendNextChunk([stream EXCEPT !.timers = @ - 1])
  /\ pc' = IF stream'.timerPending THEN "streaming" ELSE "done"
  /\ UNCHANGED <<entry, body, chatRequest, sent, hist, delays, attempt, lastError,
                 data, response>>

\* The consumer of the stream goes away: the stream is no longer readable.
\* The underlying source has no cancel(), so the pending timer stays armed.
ConsumerCancel ==
  /\ pc = "streaming"
  /\ UNCHANGED uiVars
  /\ stream.state = "readable"
  /\ stream' = [stream EXCEPT !.state = "cancelled"]
  /\ UNCHANGED <<pc, entry, body, chatRequest, sent, hist, delays, attempt, lastError,
                 data, response>>

(***************************************************************************)
(* Chat UI (components/chat/chat-interface.tsx).  A handler runs to its    *)
(* end or to its await, and the state it set is rendered before the next   *)
(* event is handled.  Message ids and dates are left out.                  *)
(***************************************************************************)
Inputs == {<<>>, <<" ">>, <<"q">>, <<" ", "q", " ">>, <<"r">>}
EXAMPLE_PROMPTS == {<<"J", "e", "l", "a", "s", "k", "a", "n">>}

IsWhiteSpace(c) == c \in {" ", LF}

RECURSIVE TrimStart(_)
TrimStart(str) ==
  IF str # <<>> /\ IsWhiteSpace(Head(str)) THEN TrimStart(Tail(str)) ELSE str

RECURSIVE TrimEnd(_)
TrimEnd(str) ==
  IF str # <<>> /\ IsWhiteSpace(str[Len(str)])
    THEN TrimEnd(SubSeq(str, 1, Len(str) - 1))
    ELSE str

\* String.prototype.trim
Trim(str) == TrimEnd(TrimStart(str))

\* Lines 60-65.
UserMessage(content) ==
  [role |-> "user", content |-> content, hasSources |-> FALSE, sources |-> <<>>]

\* Lines 98-104.
AssistantMessage(d) ==
  [role |-> "assistant", content |-> d.jawaban, hasSources |-> TRUE,
   sources |-> d.sumber]

\* Lines 110-115, with the message of the error caught.
ErrorMessage(message) ==
  [role |-> "assistant",
   content |-> <<"Maaf, terjadi kesalahan saat menghubungi server. ">> \o message,
   hasSources |-> FALSE, sources |-> <<>>]

\* What the fetch of line 76 can settle with: a network error, a 2xx reply
\* with a ChatResponse, a 2xx reply that is no JSON, a reply that is not ok.
UiOutcomes ==
  { Throws([name |-> "TypeError", message |-> <<"Failed", "to", "fetch">>,
            cause |-> <<>>]),
    Responds(200, <<>>, TRUE, [jawaban |-> <<"H", "i">>, sumber |-> <<>>]),
    Responds(200, <<>>, TRUE,
             [jawaban |-> <<"H", "i">>,
              sumber |-> <<CHOOSE src \in Sources : src.page = 12>>]),
    Responds(200, <<"0", ":">>, FALSE, NoData),
    Responds(400, <<"No user message found">>, FALSE, NoData),
    Responds(503, <<"Backend sedang loading">>, FALSE, NoData) }

\* error.message of what lines 90-96 throw for outcome o.
UiErrorMessageOf(o) ==
  IF o.kind = "throw" THEN o.err.message
  ELSE IF ~Ok(o) THEN <<"HTTP error! status: ">> \o Digits(o.status)
  ELSE ErrJson.message

\* Variant: the guard does not test isLoading.
SendMessageNoLoadingGuard ==
  /\ uiEvent' = Event("sendMessage")
  /\ UNCHANGED handlerVars
  /\ IF Trim(input) = <<>>
       THEN UNCHANGED <<messages, input, isLoading, currentSources, pending>>
       ELSE /\ Len(messages) + Len(pending) + 2 <= MaxUiMessages
            /\ messages' = Append(messages, UserMessage(Trim(input)))
            /\ input' = <<>>
            /\ isLoading' = TRUE
            /\ currentSources' = <<>>
            /\ pending' = Append(pending, Trim(input))

\* sendMessage up to await fetch (lines 57-88).  The callers (message-input.tsx
\* lines 49 and 105) repeat its guard; the function itself is what is modelled.
SendMessage ==
  /\ uiEvent' = Event("sendMessage")
  /\ UNCHANGED handlerVars
  /\ IF Trim(input) = <<>> \/ isLoading
       THEN UNCHANGED <<messages, input, isLoading, currentSources, pending>>
       ELSE /\ Len(messages) + Len(pending) + 2 <= MaxUiMessages
            /\ messages' = Append(messages, UserMessage(Trim(input)))
            /\ input' = <<>>
            /\ isLoading' = TRUE
            /\ currentSources' = <<>>
            /\ pending' = Append(pending, Trim(input))

RemoveAt(q, i) == SubSeq(q, 1, i - 1) \o SubSeq(q, i + 1, Len(q))

\* Variant: setIsLoading(false) is at the end of the try block, not in finally.
UiFetchSettlesNoFinally(i, o) ==
  /\ i \in 1..Len(pending)
  /\ uiEvent' = [handler |-> "fetchSettles", settled |-> o]
  /\ pending' = RemoveAt(pending, i)
  /\ UNCHANGED <<handlerVars, input>>
  /\ IF o.kind = "response" /\ Ok(o) /\ o.parsable
       THEN /\ messages' = Append(messages, AssistantMessage(o.data))
            /\ currentSources' = o.data.sumber
            /\ isLoading' = FALSE
       ELSE /\ messages' = Append(messages, ErrorMessage(UiErrorMessageOf(o)))
            /\ UNCHANGED <<currentSources, isLoading>>

\* The i-th awaited fetch settles with o: lines 90-119.
UiFetchSettles(i, o) ==
  /\ i \in 1..Len(pending)
  /\ uiEvent' = [handler |-> "fetchSettles", settled |-> o]
  /\ pending' = RemoveAt(pending, i)
  /\ isLoading' = FALSE
  /\ UNCHANGED <<handlerVars, input>>
  /\ IF o.kind = "response" /\ Ok(o) /\ o.parsable
       THEN /\ messages' = Append(messages, AssistantMessage(o.data))
            /\ currentSources' = o.data.sumber
       ELSE /\ messages' = Append(messages, ErrorMessage(UiErrorMessageOf(o)))
            /\ UNCHANGED currentSources

\* Lines 122-124; the textarea is disabled while isLoading (line 268).
HandleInputChange(value) ==
  /\ ~isLoading
  /\ uiEvent' = Event("handleInputChange")
  /\ input' = value
  /\ UNCHANGED <<handlerVars, messages, isLoading, currentSources, pending>>

\* Lines 132-134; the suggestions are shown while there is no message.
HandleSuggestionSelect(suggestion) ==
  /\ messages = <<>>
  /\ uiEvent' = Event("handleSuggestionSelect")
  /\ input' = suggestion
  /\ UNCHANGED <<handlerVars, messages, isLoading, currentSources, pending>>

\* Lines 126-130; the button is shown while there is a message (line 160).
ClearChat ==
  /\ Len(messages) > 0
  /\ uiEvent' = Event("clearChat")
  /\ messages' = <<>>
  /\ currentSources' = <<>>
  /\ input' = <<>>
  /\ UNCHANGED <<handlerVars, isLoading, pending>>

\* Line 282: onClose of the sources panel, shown while there are sources.
CloseSources ==
  /\ Len(currentSources) > 0
  /\ uiEvent' = Event("closeSources")
  /\ currentSources' = <<>>
  /\ UNCHANGED <<handlerVars, messages, input, isLoading, pending>>

NextUi ==
  \/ SendMessage
  \/ \E i \in 1..MaxUiMessages, o \in UiOutcomes : UiFetchSettles(i, o)
  \/ \E value \in Inputs : HandleInputChange(value)
  \/ \E suggestion \in EXAMPLE_PROMPTS : HandleSuggestionSelect(suggestion)
  \/ ClearChat
  \/ CloseSources

SpecUi == Init /\ [][NextUi]_vars

(***************************************************************************)
(* Specifications.  The retry loop never reads the body and the normalizer *)
(* never sees a backend outcome, so each is explored in full against       *)
(* representatives of the other:                                           *)
(*   Spec        every sequence of backend outcomes, the bodies of         *)
(*               SomeBodies;                                               *)
(*   SpecBodies  every body of Bodies, the backend outcomes of             *)
(*               SomeOutcomes.                                             *)
(***************************************************************************)
MessagesOf(l) == [present |-> TRUE, list |-> l]
UserSays(c) == [role |-> "user", content |-> Str(c)]

SomeBodies ==
  { [parsable |-> TRUE, pertanyaan |-> Str("a"), messages |-> MessagesAbsent,
     options |-> UiOptions],
    [parsable |-> TRUE, pertanyaan |-> Undefined,
     messages |-> MessagesOf(<<UserSays("b")>>), options |-> OtherOptions],
    [parsable |-> TRUE, pertanyaan |-> Undefined,
     messages |-> MessagesOf(<<UserSays("")>>), options |-> NoOptions],
    [parsable |-> TRUE, pertanyaan |-> Undefined, messages |-> MessagesAbsent,
     options |-> NoOptions],
    NoBody }

SomeOutcomes ==
  { Throws(ErrFetchFailedRefused),
    Throws(ErrOther),
    Responds(200, <<>>, TRUE, [jawaban |-> <<"H", "i">>, sumber |-> <<>>]),
    Responds(404, <<>>, FALSE, NoData) }

Next ==
  \/ \E b \in SomeBodies : ExtPOST(b)
  \/ \E o \in Outcomes : ExtFetchSettles(o)
  \/ ExtRetryTimer
  \/ \E b \in SomeBodies : IntPOST(b)
  \/ \E o \in Outcomes : IntFetchSettles(o)
  \/ SendNextChunkTimer
  \/ ConsumerCancel

Spec == Init /\ [][Next]_vars

NextBodies ==
  \/ \E b \in Bodies : ExtPOST(b)
  \/ \E o \in SomeOutcomes : ExtFetchSettles(o)
  \/ ExtRetryTimer
  \/ \E b \in Bodies : IntPOST(b)
  \/ \E o \in SomeOutcomes : IntFetchSettles(o)
  \/ SendNextChunkTimer
  \/ ConsumerCancel

SpecBodies == Init /\ [][NextBodies]_vars

(***************************************************************************)
(* The extended entry point alone, with progress: a pending fetch settles  *)
(* (fetch resolves or rejects) and an armed retry timer fires.             *)
(***************************************************************************)
NextExt ==
  \/ \E b \in SomeBodies : ExtPOST(b)
  \/ \E o \in Outcomes : ExtFetchSettles(o)
  \/ ExtRetryTimer

SpecExtLive ==
  /\ Init
  /\ [][NextExt]_vars
  /\ WF_vars(\E o \in Outcomes : ExtFetchSettles(o))
  /\ WF_vars(ExtRetryTimer)

(***************************************************************************)
(* Vocabulary of the properties.                                           *)
(***************************************************************************)
RECURSIVE SumSeq(_)
SumSeq(q) == IF q = <<>> THEN 0 ELSE Head(q) + SumSeq(Tail(q))

\* The failure carries a connection-refused signature: in its text or in the
\* cause it wraps.
IsRefusedSignature(err) ==
  \/ Includes(<<err.name, ":">> \o err.message, <<"ECONNREFUSED">>)
  \/ Includes(err.cause, <<"ECONNREFUSED">>)

IsThrow(o) == o.kind = "throw"
IsNon2xx(o) == o.kind = "response" /\ (o.status < 200 \/ o.status > 299)
Is2xxJson(o) == o.kind = "response" /\ o.status \in 200..299 /\ o.parsable

\* Every settled attempt before the n-th failed with a refused signature.
RefusedBefore(n) ==
  \A i \in 1..(n - 1) : IsThrow(hist[i]) /\ IsRefusedSignature(hist[i].err)

UserIndexes(list) == {i \in 1..Len(list) : list[i].role = "user"}
\* i is the position of the last role "user" entry of list.
IsLastUserIndex(list, i) ==
  i \in UserIndexes(list) /\ \A j \in UserIndexes(list) : j <= i

NonEmptyString(v) == v.tag = "string" /\ v.val # ""

(***************************************************************************)
(* C1.  Extended entry point: when the backend fetch fails with a          *)
(* connection-refused signature on attempts 1..k (k in 0..4) and answers   *)
(* 2xx with a JSON body on attempt k+1, the handler is still trying after  *)
(* each of the k failures and returns that answer as HTTP 200 after        *)
(* exactly k+1 fetch calls and exactly k waits of 8000 ms.                 *)
(***************************************************************************)
C1_RefusedThenAnswer ==
  entry = "extended" =>
    /\ \A n \in 1..Len(hist) :
         (n <= 4 /\ RefusedBefore(n + 1)) =>
           /\ n < Len(hist) \/ pc \in {"waiting", "fetching"}
           /\ Len(sent) >= n
    /\ (hist # <<>> /\ RefusedBefore(Len(hist)) /\ Is2xxJson(Last(hist))) =>
         /\ pc = "done"
         /\ response.kind = "json"
         /\ response.status = 200
         /\ response.data = Last(hist).data
         /\ Len(sent) = Len(hist)
         /\ Len(delays) = Len(hist) - 1
         /\ \A i \in 1..Len(delays) : delays[i] = 8000

C1_Witness ==
  /\ entry = "extended"
  /\ Len(hist) = 5
  /\ RefusedBefore(5)
  /\ Is2xxJson(hist[5])
  /\ pc = "done"
  /\ response.status = 200
  /\ SumSeq(delays) = 32000

(***************************************************************************)
(* C2.  Extended entry point: when the fetch fails with an error whose     *)
(* text contains ECONNREFUSED on all 5 attempts, the handler answers 503   *)
(* "Backend sedang loading" after exactly 5 fetch calls and exactly 4      *)
(* waits; nothing is waited for after the fifth failure.                   *)
(***************************************************************************)
TextRefused(o) ==
  IsThrow(o) /\ Includes(<<o.err.name, ":">> \o o.err.message, <<"ECONNREFUSED">>)

C2_AllRefused503 ==
  (entry = "extended" /\ Len(hist) = 5 /\ \A i \in 1..5 : TextRefused(hist[i])) =>
    /\ pc = "done"
    /\ response.status = 503
    /\ response.error = "Backend sedang loading"
    /\ Len(sent) = 5
    /\ Len(delays) = 4
    /\ \A i \in 1..4 : delays[i] = 8000

C2_Witness ==
  /\ entry = "extended"
  /\ Len(hist) = 5
  /\ \A i \in 1..5 : TextRefused(hist[i])
  /\ response.status = 503

(***************************************************************************)
(* C3.  Both entry points: a backend response with a non-2xx status ends   *)
(* the request.  It is the last attempt, no wait follows it, and the reply *)
(* has the same status and the body {error: "Backend request failed",      *)
(* details: <backend body text>}.                                          *)
(***************************************************************************)
C3_Non2xxNotRetried ==
  \A i \in 1..Len(hist) :
    IsNon2xx(hist[i]) =>
      /\ i = Len(hist)
      /\ pc = "done"
      /\ Len(sent) = i
      /\ Len(delays) = i - 1
      /\ response.kind = "json"
      /\ response.status = hist[i].status
      /\ response.fields = {"error", "details"}
      /\ response.error = "Backend request failed"
      /\ response.details = hist[i].text

C3_Witness ==
  /\ entry = "extended"
  /\ Len(hist) = 3
  /\ RefusedBefore(3)
  /\ IsNon2xx(hist[3])
  /\ response.status = 503
  /\ response.details = <<"Service", "Unavailable">>

(***************************************************************************)
(* C4.  Extended entry point: one request makes at most 5 fetch calls and  *)
(* at most 4 retry waits, and the waits add up to at most 32000 ms.        *)
(***************************************************************************)
C4_AttemptsBounded ==
  entry = "extended" =>
    /\ Len(sent) <= 5
    /\ Len(hist) <= 5
    /\ Len(delays) <= 4
    /\ SumSeq(delays) <= 32000

C4_Witness ==
  /\ entry = "extended"
  /\ Len(sent) = 5
  /\ Len(delays) = 4
  /\ pc = "done"
  /\ IsThrow(hist[5])

(***************************************************************************)
(* C5.  Extended entry point: a transport failure whose text does not      *)
(* contain ECONNREFUSED and that wraps no cause containing ECONNREFUSED is *)
(* fatal at once: it is the last attempt and no wait follows it.           *)
(***************************************************************************)
C5_OtherFailureFatal ==
  entry = "extended" =>
    \A i \in 1..Len(hist) :
      (IsThrow(hist[i]) /\ ~IsRefusedSignature(hist[i].err)) =>
        /\ i = Len(hist)
        /\ pc = "done"
        /\ Len(sent) = i
        /\ Len(delays) = i - 1

(***************************************************************************)
(* C6.  Extended entry point: when the body's pertanyaan is a non-empty    *)
(* string, a backend call is made and every backend call carries that      *)
(* string as its question, whatever messages holds.                        *)
(***************************************************************************)
C6_QuestionVerbatim ==
  (entry = "extended" /\ body.parsable /\ NonEmptyString(body.pertanyaan)) =>
    /\ sent # <<>>
    /\ \A i \in 1..Len(sent) : sent[i].pertanyaan = body.pertanyaan

C6_Witness ==
  /\ entry = "extended"
  /\ body.pertanyaan = Str("a")
  /\ body.messages.present
  /\ \E i \in 1..Len(body.messages.list) :
       body.messages.list[i] = [role |-> "user", content |-> Str("b")]
  /\ Len(sent) = 2

C8_NoUserMessage400 ==
  (entry # "" /\ body.parsable /\ body.pertanyaan = Undefined
     /\ (~body.messages.present \/ UserIndexes(body.messages.list) = {})) =>
    /\ pc = "done"
    /\ response.kind = "json"
    /\ response.status = 400
    /\ response.fields = {"error"}
    /\ response.error = "No user message found"
    /\ sent = <<>>
    /\ hist = <<>>

C8_Witness ==
  /\ entry = "interactive"
  /\ body.pertanyaan = Undefined
  /\ body.messages.present
  /\ Len(body.messages.list) = 2
  /\ UserIndexes(body.messages.list) = {}
  /\ response.status = 400

(***************************************************************************)
(* C9.  Both entry points: the question of a backend call is never the     *)
(* empty string; when neither the question field nor the last user message *)
(* yields a non-empty string the handler answers 400 and makes no backend  *)
(* call.                                                                   *)
(***************************************************************************)
YieldsQuestion(b) ==
  \/ entry = "extended" /\ NonEmptyString(b.pertanyaan)
  \/ /\ b.messages.present
     /\ \E k \in 1..Len(b.messages.list) :
          /\ IsLastUserIndex(b.messages.list, k)
          /\ NonEmptyString(b.messages.list[k].content)

C9_QuestionNeverEmpty ==
  /\ \A i \in 1..Len(sent) : NonEmptyString(sent[i].pertanyaan)
  /\ (entry # "" /\ body.parsable /\ ~YieldsQuestion(body)) =>
       /\ pc = "done"
       /\ response.status = 400
       /\ sent = <<>>

(***************************************************************************)
(* Reading the stream back: UTF-8 decoding, line syntax, JSON string       *)
(* syntax.                                                                 *)
(***************************************************************************)
RECURSIVE DecodeUtf8(_)
DecodeUtf8(bytes) ==
  IF bytes = <<>> THEN <<>>
  ELSE IF Len(bytes) >= 2 /\ bytes[1] = "0xC3" /\ bytes[2] = "0xA9"
    THEN <<"U+00E9">> \o DecodeUtf8(SubSeq(bytes, 3, Len(bytes)))
  ELSE IF Len(bytes) >= 3 /\ bytes[1] = "0xEF" /\ bytes[2] = "0xBF" /\ bytes[3] = "0xBD"
    THEN <<"U+FFFD">> \o DecodeUtf8(SubSeq(bytes, 4, Len(bytes)))
  ELSE <<bytes[1]>> \o DecodeUtf8(Tail(bytes))

Invalid == <<"invalid", "invalid">>

RECURSIVE JsonChars(_)
\* The code units denoted by the inside of a JSON string literal, or Invalid.
JsonChars(inner) ==
  IF inner = <<>> THEN <<>>
  ELSE IF inner[1] = "\"" \/ inner[1] = "\n" THEN Invalid
  ELSE IF inner[1] # "\\"
    THEN LET rest == JsonChars(Tail(inner))
         IN  IF rest = Invalid THEN Invalid ELSE <<inner[1]>> \o rest
  ELSE IF Len(inner) < 2 THEN Invalid
  ELSE IF inner[2] \in {"\"", "\\", "n"}
    THEN LET rest == JsonChars(SubSeq(inner, 3, Len(inner)))
             unit == IF inner[2] = "n" THEN "\n" ELSE inner[2]
         IN  IF rest = Invalid THEN Invalid ELSE <<unit>> \o rest
  ELSE IF inner[2] = "u" /\ Len(inner) >= 6
    THEN LET rest == JsonChars(SubSeq(inner, 7, Len(inner)))
             hex == SubSeq(inner, 3, 6)
             unit == IF hex = <<"d", "8", "3", "d">> THEN "U+D83D"
                     ELSE IF hex = <<"d", "e", "0", "0">> THEN "U+DE00"
                     ELSE "U+????"
         IN  IF rest = Invalid THEN Invalid ELSE <<unit>> \o rest
  ELSE Invalid

\* The payload of a text line `0:<JSON string>\n`, or Invalid.
TextPayload(frame) ==
  LET line == DecodeUtf8(frame)
      n == Len(line)
  IN  IF n >= 5 /\ line[1] = "0" /\ line[2] = ":" /\ line[3] = "\"" /\ line[n - 1] = "\""
           /\ line[n] = "\n"
        THEN JsonChars(SubSeq(line, 4, n - 2))
        ELSE Invalid

IsDoneFrame(frame) == Len(frame) >= 2 /\ frame[1] = "d" /\ frame[2] = ":"

\* The text the interactive handler is to stream: the answer, then the
\* citation block when there are sources.
StreamedText == ResponseText(Last(hist).data)

(***************************************************************************)
(* C10.  Interactive stream of a text of length L: the frames emitted so   *)
(* far are text frames carrying, one code unit each and in order, a prefix *)
(* of the text; a finished stream holds exactly L text frames whose        *)
(* payloads concatenate to the text, followed by exactly one Done frame.   *)
(***************************************************************************)
C10_StreamRoundTrip ==
  stream.state # "none" =>
    LET text == StreamedText
        L == Len(text)
        frames == stream.enqueued
        nText == IF stream.state = "closed" THEN Len(frames) - 1 ELSE Len(frames)
    IN  /\ nText <= L
        /\ \A i \in 1..nText : TextPayload(frames[i]) = <<text[i]>>
        /\ stream.state = "closed" =>
             /\ nText = L
             /\ IsDoneFrame(frames[L + 1])

C10_Witness ==
  /\ stream.state = "closed"
  /\ pc = "done"
  /\ Last(hist).data.sumber # <<>>
  /\ Last(hist).data.jawaban[1] = "\""
  /\ Len(stream.enqueued) > 30

(***************************************************************************)
(* C11.  Interactive stream: a frame that is not a text frame is terminal. *)
(* There is at most one, it is the last frame emitted, the stream is       *)
(* closed with it and no callback that could emit another frame is         *)
(* pending.                                                                *)
(***************************************************************************)
IsTextFrame(frame) == Len(frame) >= 2 /\ frame[1] = "0" /\ frame[2] = ":"

TerminalFrames == {i \in 1..Len(stream.enqueued) : ~IsTextFrame(stream.enqueued[i])}

C11_NothingAfterDone ==
  /\ Cardinality(TerminalFrames) <= 1
  /\ \A i \in TerminalFrames :
       /\ i = Len(stream.enqueued)
       /\ stream.state = "closed"
       /\ ~stream.timerPending
       /\ pc = "done"
  /\ stream.state = "closed" => TerminalFrames # {}

C11_Witness ==
  /\ stream.state = "closed"
  /\ pc = "done"
  /\ Len(stream.enqueued) >= 3
  /\ TerminalFrames = {Len(stream.enqueued)}
  /\ IsDoneFrame(stream.enqueued[Len(stream.enqueued)])

(***************************************************************************)
(* Reading a citation block: decimal numerals and the parts of a line      *)
(* `<n>. <name> (Hal. <page>, Skor: <int>.<dec>%)`.                        *)
(***************************************************************************)
DigitOf(c) ==
  CASE c = "0" -> 0 [] c = "1" -> 1 [] c = "2" -> 2 [] c = "3" -> 3 [] c = "4" -> 4
    [] c = "5" -> 5 [] c = "6" -> 6 [] c = "7" -> 7 [] c = "8" -> 8 [] c = "9" -> 9
    [] OTHER -> -1

RECURSIVE ParseNatFrom(_, _)
ParseNatFrom(acc, ds) ==
  IF ds = <<>> THEN acc
  ELSE IF DigitOf(Head(ds)) < 0 THEN -1
  ELSE ParseNatFrom(10 * acc + DigitOf(Head(ds)), Tail(ds))

\* The number a decimal numeral denotes, or -1 when ds is not a numeral.
ParseNat(ds) == IF ds = <<>> THEN -1 ELSE ParseNatFrom(0, ds)

IndexesOf(q, c) == {k \in 1..Len(q) : q[k] = c}
FirstIndexOf(q, c) == CHOOSE k \in IndexesOf(q, c) : \A j \in IndexesOf(q, c) : k <= j
LastIndexOf(q, c) == CHOOSE k \in IndexesOf(q, c) : \A j \in IndexesOf(q, c) : j <= k
NthIndexOf(q, c, n) ==
  CHOOSE k \in IndexesOf(q, c) : Cardinality({j \in IndexesOf(q, c) : j <= k}) = n

\* The n-th line of q, without its line feed.
LineAt(q, n) ==
  SubSeq(q, IF n = 1 THEN 1 ELSE NthIndexOf(q, "\n", n - 1) + 1, NthIndexOf(q, "\n", n) - 1)

IsSuffixOf(a, b) == Len(a) <= Len(b) /\ a = SubSeq(b, Len(b) - Len(a) + 1, Len(b))
StartsWith(q, pre) == Len(pre) <= Len(q) /\ SubSeq(q, 1, Len(pre)) = pre

\* line is numbered n and gives a name taken from src.source, the page of src
\* and, with one decimal, the percentage nearest to src.score * 100 (the score
\* is counted in 1/10000, the percentage read back in tenths).
LineDescribes(line, n, src) ==
  /\ IndexesOf(line, ".") # {} /\ IndexesOf(line, "(") # {}
  /\ LET dot == FirstIndexOf(line, ".")
         par == LastIndexOf(line, "(")
         name == SubSeq(line, dot + 2, par - 2)
         inside == SubSeq(line, par + 1, Len(line))
     IN  /\ ParseNat(SubSeq(line, 1, dot - 1)) = n
         /\ dot + 2 <= par - 2 /\ line[dot + 1] = " " /\ line[par - 1] = " "
         /\ IsSuffixOf(name, src.source)
         /\ ("/" \in {name[k] : k \in 1..Len(name)}) => name = src.source
         /\ StartsWith(inside, <<"H", "a", "l", ".", " ">>)
         /\ IndexesOf(inside, ",") # {} /\ IndexesOf(inside, ".") # {}
         /\ LET comma == FirstIndexOf(inside, ",")
                point == LastIndexOf(inside, ".")
                tenths == 10 * ParseNat(SubSeq(inside, comma + 8, point - 1))
                            + ParseNat(SubSeq(inside, point + 1, Len(inside) - 2))
            IN  /\ ParseNat(SubSeq(inside, 6, comma - 1)) = src.page
                /\ SubSeq(inside, comma, comma + 7)
                     = <<",", " ", "S", "k", "o", "r", ":", " ">>
                /\ ParseNat(SubSeq(inside, comma + 8, point - 1)) >= 0
                /\ point = Len(inside) - 3
                /\ DigitOf(inside[point + 1]) >= 0
                /\ SubSeq(inside, Len(inside) - 1, Len(inside)) = <<"%", ")">>
                /\ 10 * tenths - src.score <= 5
                /\ src.score - 10 * tenths <= 5

CitationHeader ==
  <<"\n", "\n", "-", "-", "-", "\n", "*", "*", "S", "u", "m", "b", "e", "r", " ",
    "R", "e", "f", "e", "r", "e", "n", "s", "i", ":", "*", "*", "\n">>

(***************************************************************************)
(* C12.  Interactive entry point: with no sources the text to stream is    *)
(* the answer; with N >= 1 sources it is the answer, the fixed delimiter   *)
(* and header, and exactly N lines, the i-th numbered i and describing     *)
(* the i-th source with its page and its score as a one-decimal            *)
(* percentage.                                                             *)
(***************************************************************************)
C12_CitationBlock ==
  stream.state # "none" =>
    LET d == Last(hist).data
        N == Len(d.sumber)
        text == stream.lines
        start == Len(d.jawaban) + Len(CitationHeader)
        block == SubSeq(text, start + 1, Len(text))
    IN  IF N = 0 THEN text = d.jawaban
        ELSE /\ StartsWith(text, d.jawaban \o CitationHeader)
             /\ Cardinality(IndexesOf(block, "\n")) = N
             /\ block # <<>> /\ block[Len(block)] = "\n"
             /\ \A i \in 1..N : LineDescribes(LineAt(block, i), i, d.sumber[i])

C12_Witness ==
  /\ stream.state # "none"
  /\ Len(Last(hist).data.sumber) = 2
  /\ Last(hist).data.sumber[1].page = 3
  /\ Last(hist).data.sumber[2].page = 12
  /\ Last(hist).data.jawaban = <<"H", "i">>
  /\ Len(stream.lines) > 60

(***************************************************************************)
(* C13.  Extended entry point: a backend attempt that returns 2xx with a   *)
(* JSON body ends the request with HTTP 200 and that JSON value: the same  *)
(* fields, jawaban without any citation text, sumber in the same order     *)
(* with every entry unchanged.                                             *)
(***************************************************************************)
C13_JsonPassedThrough ==
  entry = "extended" =>
    \A i \in 1..Len(hist) :
      Is2xxJson(hist[i]) =>
        /\ i = Len(hist)
        /\ pc = "done"
        /\ response.kind = "json"
        /\ response.status = 200
        /\ response.fields = {"jawaban", "sumber"}
        /\ response.data.jawaban = hist[i].data.jawaban
        /\ Len(response.data.sumber) = Len(hist[i].data.sumber)
        /\ \A k \in 1..Len(hist[i].data.sumber) :
             response.data.sumber[k] = hist[i].data.sumber[k]

C13_Witness ==
  /\ entry = "extended"
  /\ pc = "done"
  /\ Len(hist) = 2
  /\ Is2xxJson(hist[2])
  /\ Len(hist[2].data.sumber) = 2
  /\ hist[2].data.sumber[1].page = 12
  /\ hist[2].data.sumber[2].page = 1
  /\ response.data.sumber[2].page = 1
  /\ response.status = 200

(***************************************************************************)
(* C14.  Interactive entry point: when validation fails, the fetch throws, *)
(* the backend answers non-2xx or the body (inbound or backend) cannot be  *)
(* parsed, the handler returns a JSON error response (400 on validation    *)
(* failure, 500 on an exception) and no stream exists: no frame is ever    *)
(* emitted.                                                                *)
(***************************************************************************)
Is2xxUnparsable(o) == o.kind = "response" /\ o.status \in 200..299 /\ ~o.parsable

NoUserEntry(b) == ~b.messages.present \/ UserIndexes(b.messages.list) = {}

C14_NoStreamOnError ==
  (entry = "interactive"
     /\ \/ ~body.parsable
        \/ NoUserEntry(body)
        \/ hist # <<>> /\ ~Is2xxJson(Last(hist))) =>
    /\ pc = "done"
    /\ response.kind = "json"
    /\ "error" \in response.fields
    /\ response.status >= 400
    /\ (body.parsable /\ NoUserEntry(body)) => response.status = 400
    /\ (~body.parsable \/ (hist # <<>> /\ ~IsNon2xx(Last(hist)))) => response.status = 500
    /\ stream.state = "none"
    /\ stream.enqueued = <<>>
    /\ ~stream.timerPending

C14_Witness ==
  /\ entry = "interactive"
  /\ hist # <<>>
  /\ Is2xxUnparsable(Last(hist))
  /\ response.status = 500
  /\ stream.state = "none"

(***************************************************************************)
(* C15.  Interactive entry point: one request makes at most one backend    *)
(* fetch and never waits for a retry; when that single attempt fails in    *)
(* any way, connection refused included, the request ends at once with an  *)
(* error response.                                                         *)
(***************************************************************************)
C15_SingleAttempt ==
  entry = "interactive" =>
    /\ Len(sent) <= 1
    /\ Len(hist) <= 1
    /\ delays = <<>>
    /\ pc # "waiting"
    /\ (hist # <<>> /\ ~Is2xxJson(hist[1])) =>
         /\ pc = "done"
         /\ response.kind = "json"
         /\ response.status >= 400
         /\ response.fields = {"error", "details"}

C15_Witness ==
  /\ entry = "interactive"
  /\ Len(hist) = 1
  /\ IsThrow(hist[1])
  /\ IsRefusedSignature(hist[1].err)
  /\ pc = "done"
  /\ response.status = 500
  /\ Len(sent) = 1

(***************************************************************************)
(* C16.  Every backend call of the extended entry point carries top_k 5,   *)
(* max_tokens 2048, temperature 0.5, include_context false, and every call *)
(* of the interactive entry point top_k 5, max_tokens 800, temperature     *)
(* 0.7, include_context false, whatever parameters the inbound body        *)
(* carries; the request has no other field than these and the question.    *)
(* (temperature is counted in tenths.)                                     *)
(***************************************************************************)
C16_FixedParameters ==
  \A i \in 1..Len(sent) :
    /\ DOMAIN sent[i]
         = {"pertanyaan", "top_k", "max_tokens", "temperature", "include_context"}
    /\ sent[i].top_k = 5
    /\ sent[i].include_context = FALSE
    /\ entry = "extended" => sent[i].max_tokens = 2048 /\ sent[i].temperature = 5
    /\ entry = "interactive" => sent[i].max_tokens = 800 /\ sent[i].temperature = 7

C16_Witness ==
  /\ entry = "extended"
  /\ body.options.present
  /\ body.options.max_tokens = 400
  /\ Len(sent) = 2
  /\ sent[2].max_tokens = 2048

(***************************************************************************)
(* C17.  Extended entry point: a backend fetch that fails with an error    *)
(* named AbortError ends the request: it is the last attempt, no wait      *)
(* follows it, and the reply is HTTP 504 with exactly the fields error and *)
(* details, error being "Request timeout".                                 *)
(***************************************************************************)
IsAbort(o) == IsThrow(o) /\ o.err.name = "AbortError"

C17_AbortIs504 ==
  entry = "extended" =>
    \A i \in 1..Len(hist) :
      IsAbort(hist[i]) =>
        /\ i = Len(hist)
        /\ pc = "done"
        /\ Len(sent) = i
        /\ Len(delays) = i - 1
        /\ response.kind = "json"
        /\ response.status = 504
        /\ response.fields = {"error", "details"}
        /\ response.error = "Request timeout"

C17_Witness ==
  /\ entry = "extended"
  /\ Len(hist) = 3
  /\ RefusedBefore(3)
  /\ IsAbort(hist[3])
  /\ response.status = 504

(***************************************************************************)
(* C18.  Extended entry point: a failure that is no validation failure, no *)
(* backend non-2xx, no abort and carries no connection-refused signature   *)
(* (an unparsable inbound body, an unparsable 2xx backend body, any other  *)
(* transport error) is not retried and is answered with HTTP 500,          *)
(* error "Internal server error" and the error's text as details.          *)
(***************************************************************************)
ErrorText(err) == <<err.name, ":">> \o err.message

IsInternalServerError(text) ==
  /\ pc = "done"
  /\ response.kind = "json"
  /\ response.status = 500
  /\ response.fields = {"error", "details"}
  /\ response.error = "Internal server error"
  /\ response.details = text

C18_OtherFailure500 ==
  entry = "extended" =>
    /\ ~body.parsable => sent = <<>> /\ IsInternalServerError(ErrorText(ErrJson))
    /\ \A i \in 1..Len(hist) :
         (IsThrow(hist[i]) /\ ~IsAbort(hist[i]) /\ ~IsRefusedSignature(hist[i].err)) =>
           /\ i = Len(hist)
           /\ Len(sent) = i
           /\ Len(delays) = i - 1
           /\ IsInternalServerError(ErrorText(hist[i].err))
    /\ \A i \in 1..Len(hist) :
         Is2xxUnparsable(hist[i]) =>
           /\ i = Len(hist)
           /\ Len(sent) = i
           /\ IsInternalServerError(ErrorText(ErrJson))

(***************************************************************************)
(* C19.  Extended entry point: every wait before a retry lasts 8000 ms,    *)
(* whatever the attempt number, and a wait is made only after an attempt   *)
(* numbered below 5 that failed with a connection-refused signature.       *)
(***************************************************************************)
C19_FixedDelayAfterUnready ==
  entry = "extended" =>
    \A i \in 1..Len(delays) :
      /\ delays[i] = 8000
      /\ i < 5
      /\ i <= Len(hist)
      /\ IsThrow(hist[i])
      /\ IsRefusedSignature(hist[i].err)

(***************************************************************************)
(* C21.  Interactive entry point: once the text to stream has been built,  *)
(* the parsed backend response is what the backend returned: jawaban, the  *)
(* length and order of sumber, and the fields source, page, doc_type,      *)
(* score and retrieval_source of every entry are unchanged.                *)
(***************************************************************************)
SameSource(a, b) ==
  /\ a.source = b.source
  /\ a.page = b.page
  /\ a.doc_type = b.doc_type
  /\ a.score = b.score
  /\ a.retrieval_source = b.retrieval_source

C21_FormatterReadsOnly ==
  (entry = "interactive" /\ stream.state # "none") =>
    /\ data.jawaban = Last(hist).data.jawaban
    /\ Len(data.sumber) = Len(Last(hist).data.sumber)
    /\ \A i \in 1..Len(data.sumber) : SameSource(data.sumber[i], Last(hist).data.sumber[i])

C21_Witness ==
  /\ entry = "interactive"
  /\ stream.state = "closed"
  /\ Len(data.sumber) = 2
  /\ data.sumber[1] # data.sumber[2]
  /\ Len(stream.lines) > Len(data.jawaban)

(***************************************************************************)
(* C22.  Extended entry point: when all 5 attempts fail and every failure  *)
(* is one the retry loop treats as backend-unready (ECONNREFUSED in the    *)
(* error text, "fetch failed" in the error text, or ECONNREFUSED in the    *)
(* wrapped cause only), the reply is HTTP 503, never HTTP 500.             *)
(***************************************************************************)
ClassifiedUnready(err) ==
  \/ Includes(ErrorText(err), <<"ECONNREFUSED">>)
  \/ Includes(ErrorText(err), <<"fetch", "failed">>)
  \/ Includes(err.cause, <<"ECONNREFUSED">>)

C22_ClassificationAgrees ==
  (/\ entry = "extended"
   /\ Len(hist) = 5
   /\ \A i \in 1..5 : IsThrow(hist[i]) /\ ClassifiedUnready(hist[i].err)) =>
    /\ pc = "done"
    /\ response.status = 503
    /\ response.status # 500

(***************************************************************************)
(* C23.  Interactive entry point: whenever a frame has been emitted, the   *)
(* single backend call has returned 2xx with a parsed body and the stream  *)
(* holds the whole text, answer and citation block; from the first frame   *)
(* on the text of the stream never changes and no backend call is made or  *)
(* settled.                                                                *)
(***************************************************************************)
FramesEmitted == entry = "interactive" /\ stream.enqueued # <<>>

FullText(d) ==
  IF d.sumber = <<>> THEN d.jawaban
  ELSE d.jawaban \o SourcesHeader \o SourceLines(d.sumber, Len(d.sumber))

C23_TextBeforeFrames ==
  /\ [](FramesEmitted =>
          /\ Len(sent) = 1
          /\ Len(hist) = 1
          /\ Is2xxJson(hist[1])
          /\ data = hist[1].data
          /\ stream.lines = FullText(hist[1].data))
  /\ [][FramesEmitted =>
          /\ stream'.lines = stream.lines
          /\ sent' = sent
          /\ hist' = hist]_vars

C23_Witness ==
  /\ entry = "interactive"
  /\ pc = "streaming"
  /\ stream.currentIndex = 3
  /\ Len(stream.enqueued) = 3
  /\ Len(hist[1].data.sumber) = 2

(***************************************************************************)
(* C24.  Interactive stream: every line written is a text line             *)
(* 0:<JSON string of one character> or the terminal line                   *)
(* d:{"finishReason":"stop"}; the terminal line closes the stream and a    *)
(* closed stream is written no more, so it is written at most once; no     *)
(* error frame (3:...) is written.  Once the consumer has gone away        *)
(* nothing more is written and the timer is not armed again.               *)
(***************************************************************************)
TerminalLine ==
  <<"d", ":", "{", "\"", "f", "i", "n", "i", "s", "h", "R", "e", "a", "s", "o", "n",
    "\"", ":", "\"", "s", "t", "o", "p", "\"", "}", "\n">>

IsTextLine(frame) == TextPayload(frame) # Invalid /\ Len(TextPayload(frame)) = 1
IsTerminalLine(frame) == DecodeUtf8(frame) = TerminalLine
IsErrorFrame(frame) == Len(frame) >= 2 /\ frame[1] = "3" /\ frame[2] = ":"

\* This step writes exactly the line frame to the stream.
Writes(frame) == stream'.enqueued = Append(stream.enqueued, frame)

C24_WireFormat ==
  /\ [](stream.state = "none" => stream.enqueued = <<>>)
  /\ [][\/ stream'.enqueued = stream.enqueued
        \/ /\ stream.state \in {"none", "readable"}
           /\ \E frame \in {Last(stream'.enqueued)} :
                /\ Writes(frame)
                /\ ~IsErrorFrame(frame)
                /\ \/ IsTextLine(frame) /\ stream'.state = "readable"
                   \/ IsTerminalLine(frame) /\ stream'.state = "closed"]_vars
  /\ [][stream.state = "cancelled" =>
          /\ stream'.enqueued = stream.enqueued
          /\ stream'.state = "cancelled"
          /\ stream'.timerPending => stream.timerPending]_vars

C24_Witness ==
  /\ stream.state = "cancelled"
  /\ ~stream.timerPending
  /\ Len(stream.enqueued) = 2
  /\ Len(stream.lines) > 2
  /\ pc = "done"

(***************************************************************************)
(* C25.  Extended entry point: whatever the backend outcomes, a request    *)
(* that has started ends with a response; the response is given once and   *)
(* never replaced; its status is 200, 400, 500, 503, 504 or the non-2xx    *)
(* status of the backend's last answer; no more than MAX_RETRIES fetch     *)
(* calls are made.                                                         *)
(***************************************************************************)
C25_AlwaysOneResponse ==
  /\ (entry = "extended") ~> (pc = "done")
  /\ [](entry = "extended" =>
          /\ Len(sent) <= MAX_RETRIES
          /\ (pc = "done") <=> (response # NoResponse)
          /\ pc = "done" =>
               \/ response.status \in {200, 400, 500, 503, 504}
               \/ /\ hist # <<>>
                  /\ IsNon2xx(Last(hist))
                  /\ response.status = Last(hist).status)
  /\ [][response # NoResponse => response' = response]_vars

C25_Witness ==
  /\ entry = "extended"
  /\ pc = "done"
  /\ Len(hist) = 5
  /\ Len(delays) = 4
  /\ IsThrow(hist[5])
  /\ response.status \in {500, 503, 504}
  /\ response.status = 504

(***************************************************************************)
(* C26 as stated.  Extended entry point: a request ends with HTTP 503 only *)
(* when all 5 fetch attempts were made and each of them failed.            *)
(***************************************************************************)
FiveFailedAttempts ==
  /\ Len(sent) = 5
  /\ Len(hist) = 5
  /\ \A i \in 1..5 : IsThrow(hist[i])

Ends503 == entry = "extended" /\ pc = "done" /\ response.status = 503

C26_503OnlyAfterFive == Ends503 => FiveFailedAttempts

(***************************************************************************)
(* C26 amended.  Extended entry point: a request that ends with HTTP 503   *)
(* either carries error "Backend sedang loading", and then all 5 fetch     *)
(* attempts were made and each of them failed, or carries error "Backend   *)
(* request failed", and then the last attempt was answered by the backend  *)
(* with status 503 and that answer's text is the details.                  *)
(***************************************************************************)
C26_Own503OnlyAfterFive ==
  Ends503 =>
    \/ /\ response.error = "Backend sedang loading"
       /\ FiveFailedAttempts
    \/ /\ response.error = "Backend request failed"
       /\ hist # <<>>
       /\ Last(hist).kind = "response"
       /\ Last(hist).status = 503
       /\ response.details = Last(hist).text
       /\ Len(sent) = Len(hist)

C26_Witness ==
  /\ Ends503
  /\ response.error = "Backend sedang loading"
  /\ FiveFailedAttempts
  /\ hist[5] = Throws(ErrFetchFailedRefused)
  /\ hist[1] = Throws(ErrCauseOnly)

(***************************************************************************)
(* C27.  Chat UI: at most one gateway request is awaited at any time, and  *)
(* a call of sendMessage made while isLoading is true or while the input   *)
(* is empty or all white space issues no request and leaves messages,      *)
(* input, isLoading and currentSources as they were.                       *)
(***************************************************************************)
IsBlank(str) == \A i \in 1..Len(str) : str[i] \in {" ", "\n"}

C27_OneRequestInFlight ==
  /\ [](Len(pending) <= 1)
  /\ [][(uiEvent'.handler = "sendMessage" /\ (isLoading \/ IsBlank(input))) =>
          /\ pending' = pending
          /\ messages' = messages
          /\ input' = input
          /\ isLoading' = isLoading
          /\ currentSources' = currentSources]_vars

\* sendMessage was called last, during a request and with a question typed.
C27_Witness ==
  /\ uiEvent.handler = "sendMessage"
  /\ isLoading
  /\ Len(pending) = 1
  /\ ~IsBlank(input)
  /\ messages = <<>>

(***************************************************************************)
(* C28.  Chat UI: a call of sendMessage with a non-blank input and         *)
(* isLoading false appends exactly one user message, holding the trimmed   *)
(* input, and issues one request; when a request settles, in whatever way, *)
(* exactly one assistant message is appended (the answer of a 2xx JSON     *)
(* reply, an error text otherwise) and isLoading is false; isLoading is    *)
(* true only while a request is awaited.                                   *)
(***************************************************************************)
IsAnswerOf(m, o) ==
  /\ m.role = "assistant"
  /\ IF Is2xxJson(o) THEN m.content = o.data.jawaban
     ELSE /\ m.content # <<>>
          /\ m.content[1] = "Maaf, terjadi kesalahan saat menghubungi server. "

C28_UserThenAssistant ==
  /\ [](isLoading => pending # <<>>)
  /\ [][(uiEvent'.handler = "sendMessage" /\ ~isLoading /\ ~IsBlank(input)) =>
          /\ Len(messages') = Len(messages) + 1
          /\ SubSeq(messages', 1, Len(messages)) = messages
          /\ Last(messages').role = "user"
          /\ Last(messages').content = Trim(input)
          /\ Len(pending') = Len(pending) + 1
          /\ isLoading']_vars
  /\ [][Len(pending') < Len(pending) =>
          /\ Len(pending') = Len(pending) - 1
          /\ uiEvent'.handler = "fetchSettles"
          /\ Len(messages') = Len(messages) + 1
          /\ SubSeq(messages', 1, Len(messages)) = messages
          /\ IsAnswerOf(Last(messages'), uiEvent'.settled)
          /\ ~isLoading']_vars

\* A request was settled by a reply that is not ok, after the chat was cleared.
C28_Witness ==
  /\ uiEvent.handler = "fetchSettles"
  /\ IsNon2xx(uiEvent.settled)
  /\ ~isLoading
  /\ pending = <<>>
  /\ Len(messages) = 3
  /\ messages[3].role = "assistant"

(***************************************************************************)
(* C29.  Chat UI: the message list is empty or starts with a user message  *)
(* and alternates user, assistant, user, ...                               *)
(***************************************************************************)
C29_Alternation ==
  \A i \in 1..Len(messages) :
    messages[i].role = (IF i % 2 = 1 THEN "user" ELSE "assistant")

(***************************************************************************)
(* C30 as stated.  Interactive stream producer: at most one sendNextChunk  *)
(* timer is armed at any time; the frame index changes only in a call of   *)
(* sendNextChunk, by one; sendNextChunk is never called, so enqueue never  *)
(* called, after controller.close; and every stream that has ended had     *)
(* controller.close called exactly once.                                   *)
(***************************************************************************)
ProducerDiscipline ==
  /\ [](/\ stream.timers <= 1
        /\ stream.closeCalls <= 1
        /\ stream.timerPending <=> stream.timers = 1)
  /\ [][/\ \/ stream'.currentIndex = stream.currentIndex
           \/ /\ stream'.currentIndex = stream.currentIndex + 1
              /\ stream'.calls = stream.calls + 1
        /\ stream.closeCalls >= 1 =>
             /\ stream'.calls = stream.calls
             /\ stream'.enqueued = stream.enqueued]_vars

StreamEnded == stream.state # "none" /\ pc = "done"

C30_CloseExactlyOnce ==
  /\ ProducerDiscipline
  /\ [](StreamEnded => stream.closeCalls = 1)

(***************************************************************************)
(* C30 amended.  As above, but controller.close is called exactly once     *)
(* only on a stream whose consumer stayed to the end; on a stream whose    *)
(* consumer went away it is never called.                                  *)
(***************************************************************************)
C30_CloseAtMostOnce ==
  /\ ProducerDiscipline
  /\ [](StreamEnded =>
          /\ stream.state = "closed" <=> stream.closeCalls = 1
          /\ stream.state = "cancelled" <=> stream.closeCalls = 0
          /\ stream.state = "closed" => stream.calls = Len(stream.lines) + 1)

C30_Witness ==
  /\ StreamEnded
  /\ stream.state = "closed"
  /\ stream.closeCalls = 1
  /\ stream.calls = 7
  /\ stream.timers = 0

====
